---------------------------- MODULE Spec2Model ----------------------------
(***************************************************************************)
(* Model of the form backend (app/main.py): the handlers register_user,    *)
(* upload_file and submit_form_response over the tables users, forms and   *)
(* responses, and the row-to-descriptor translation of the .xlsx branch.   *)
(*                                                                         *)
(* Text is a sequence of one-character strings, so that strip, lower and   *)
(* split are computed as Python computes them.  A Python dict is a         *)
(* function whose DOMAIN is its set of keys: a descriptor without an       *)
(* "options" key has no "options" in its DOMAIN.                           *)
(***************************************************************************)
EXTENDS Naturals, Sequences, FiniteSets, TLC

VARIABLES
    users,      \* table users: sequence of rows [id, clerk_user_id, email]
    workers,    \* register_user requests between their query and their commit
    forms,      \* table forms: sequence of rows [id, form_id, user_id, name, fields]
    origin,     \* history: origin[i] is the upload branch that created forms[i]
    responses,  \* table responses: sequence of rows [id, form_id, data]
    last,       \* outcome of the handler that completed last
    row,        \* a spreadsheet row handed to the row translation
    out         \* what the row translation made of row

vars == <<users, workers, forms, origin, responses, last, row, out>>

---------------------------------------------------------------------------
(* Bounds *)

NumWorkers == 2
MaxResponses == 2
MaxReqLen == 3
MaxOptLen == 3

---------------------------------------------------------------------------
(* Text: str.strip, str.lower, str.split *)

Space == " "
Comma == ","

RECURSIVE LStrip(_)
LStrip(s) ==
    IF s # <<>> /\ Head(s) = Space THEN LStrip(Tail(s)) ELSE s

RECURSIVE RStrip(_)
RStrip(s) ==
    IF s # <<>> /\ s[Len(s)] = Space THEN RStrip(SubSeq(s, 1, Len(s) - 1)) ELSE s

Strip(s) == RStrip(LStrip(s))

LowerChar(ch) ==
    CASE ch = "Y" -> "y"
      [] ch = "E" -> "e"
      [] ch = "S" -> "s"
      [] ch = "N" -> "n"
      [] ch = "O" -> "o"
      [] ch = "A" -> "a"
      [] ch = "B" -> "b"
      [] ch = "C" -> "c"
      [] OTHER -> ch

Lower(s) == [i \in 1..Len(s) |-> LowerChar(s[i])]

\* s.split(","): the pieces between the commas, empty pieces included;
\* "".split(",") is [""].
RECURSIVE Split(_, _)
Split(s, piece) ==
    IF s = <<>> THEN <<piece>>
    ELSE IF Head(s) = Comma THEN <<piece>> \o Split(Tail(s), <<>>)
    ELSE Split(Tail(s), Append(piece, Head(s)))

RECURSIVE NonEmptyStripped(_)
NonEmptyStripped(pieces) ==
    IF pieces = <<>> THEN <<>>
    ELSE IF Strip(Head(pieces)) # <<>>
         THEN <<Strip(Head(pieces))>> \o NonEmptyStripped(Tail(pieces))
         ELSE NonEmptyStripped(Tail(pieces))

\* [option.strip() for option in options.split(",") if option.strip()]
OptionList(options) == NonEmptyStripped(Split(options, <<>>))

---------------------------------------------------------------------------
(* The literals of the source *)

Yes == <<"y", "e", "s">>
Text == <<"T", "e", "x", "t">>
Checkbox == <<"C", "h", "e", "c", "k", "b", "o", "x">>
Dropdown == <<"D", "r", "o", "p", "d", "o", "w", "n">>
MultipleChoice ==
    <<"M", "u", "l", "t", "i", "p", "l", "e", " ", "C", "h", "o", "i", "c", "e">>

ChoiceTypes == {Dropdown, MultipleChoice}
PlainTypes == {Text, Checkbox}

---------------------------------------------------------------------------
(* Spreadsheet cells as pandas hands them to the loop.  A column the sheet *)
(* does not have is "missing" (row.get returns its default); a blank cell  *)
(* under an existing header is the float NaN; a numeric cell is a number;  *)
(* any other cell is a str.                                                *)

StrCell(s) == [k |-> "str", s |-> s]
MissingCell == [k |-> "missing", s |-> <<>>]
NaNCell == [k |-> "nan", s |-> <<>>]
NumCell == [k |-> "num", s |-> <<>>]

\* row.get(col, ""): the default only when the row has no such key
RowGet(r, col) == IF r[col].k = "missing" THEN StrCell(<<>>) ELSE r[col]

\* only a str has .strip / .split; on a float or an int the attribute
\* lookup raises AttributeError
HasStrMethods(cell) == cell.k = "str"

Raised == [ok |-> FALSE, field |-> <<>>]
Built(f) == [ok |-> TRUE, field |-> f]

\* field_json.pop("options", None) if the type is Text or Checkbox
PopOptions(f) ==
    IF f.type \in PlainTypes
    THEN [key \in DOMAIN f \ {"options"} |-> f[key]]
    ELSE f

\* TakesOptions with "Multiple Choice" left out of the list
TakesOptionsDropdownOnly(type) == type = Dropdown

\* if field_json["type"] in ["Dropdown", "Multiple Choice"]
TakesOptions(type) == type \in ChoiceTypes

\* "required": row.get("Required", "").strip().lower() == 'yes'
RequiredOf(s) == Lower(Strip(s)) = Yes

\* The body of the loop over df.iterrows(): the descriptor of one row, or
\* the exception the row raises.
FieldJson(r) ==
    LET label == RowGet(r, "Label")
        type == RowGet(r, "Type")
        required == RowGet(r, "Required")
    IN  IF ~(HasStrMethods(label) /\ HasStrMethods(type) /\ HasStrMethods(required))
        THEN Raised
        ELSE LET field_json ==
                     [label |-> Strip(label.s),
                      type |-> Strip(type.s),
                      validation |-> [required |-> RequiredOf(required.s)]]
             IN  IF TakesOptions(field_json.type)
                 THEN LET options == RowGet(r, "Option")
                      IN  IF ~HasStrMethods(options)
                          THEN Raised
                          ELSE Built(PopOptions(
                                   field_json @@ [options |-> OptionList(options.s)]))
                 ELSE Built(PopOptions(field_json))


---------------------------------------------------------------------------
(* The store.  app/models.py declares the tables; the store assigns the    *)
(* internal ids and enforces the unique constraints at commit.             *)

\* What the handler that completed last returned: its branch, its HTTP
\* status and the length of its local list fields when it returned.
NoLast == [op |-> "none", path |-> "none", status |-> 0, n |-> 0]
Outcome(op, path, status, n) ==
    [op |-> op, path |-> path, status |-> status, n |-> n]

\* auto-assigned primary key
NextId(table) == Len(table) + 1

\* unique constraint on users.clerk_user_id
ClerkIdTaken(table, clerk_user_id) ==
    \E i \in 1..Len(table) : table[i].clerk_user_id = clerk_user_id

\* unique constraint on forms.form_id
FormIdTaken(table, form_id) ==
    \E i \in 1..Len(table) : table[i].form_id = form_id

---------------------------------------------------------------------------
(* register_user *)

ClerkIds == {"clerk_a", "clerk_b"}
Emails == {"x@mail", "y@mail"}
Workers == 1..NumWorkers

Idle == [pc |-> "idle", clerk_user_id |-> "", email |-> ""]

\* db.query(User).filter(User.clerk_user_id == ...).first()
ExistingUser(clerk_user_id) == ClerkIdTaken(users, clerk_user_id)

\* RegisterStatus without the except IntegrityError clause
RegisterStatusNoIntegrityClause(exc) == IF exc = "none" THEN 200 ELSE 500

\* The except clauses of register_user, in their order: IntegrityError,
\* then Exception, which also catches the HTTPException raised inside the
\* try block and replaces it by a 500.
RegisterStatus(exc) ==
    CASE exc = "none" -> 200
      [] exc = "IntegrityError" -> 400
      [] OTHER -> 500

\* The request arrives and runs its existence query.  An existing user
\* raises HTTPException(400) inside the try block; otherwise the request
\* goes on to its commit.
RegisterQuery(w, clerk_user_id, email) ==
    /\ workers[w].pc = "idle"
    /\ IF ExistingUser(clerk_user_id)
       THEN /\ last' = Outcome("register", "existing", RegisterStatus("HTTPException"), 0)
            /\ UNCHANGED workers
       ELSE /\ workers' = [workers EXCEPT ![w] =
                   [pc |-> "checked", clerk_user_id |-> clerk_user_id, email |-> email]]
            /\ UNCHANGED last
    /\ UNCHANGED <<users, forms, origin, responses, row, out>>

\* db.add, db.commit: the insert succeeds, or the unique constraint raises
\* IntegrityError and the handler rolls back.
RegisterCommit(w) ==
    /\ workers[w].pc = "checked"
    /\ IF ClerkIdTaken(users, workers[w].clerk_user_id)
       THEN /\ UNCHANGED users
            /\ last' = Outcome("register", "integrity", RegisterStatus("IntegrityError"), 0)
       ELSE /\ users' = Append(users,
                   [id |-> NextId(users),
                    clerk_user_id |-> workers[w].clerk_user_id,
                    email |-> workers[w].email])
            /\ last' = Outcome("register", "created", RegisterStatus("none"), 0)
    /\ workers' = [workers EXCEPT ![w] = Idle]
    /\ UNCHANGED <<forms, origin, responses, row, out>>

InitStore ==
    /\ users = <<>>
    /\ workers = [w \in Workers |-> Idle]
    /\ forms = <<>>
    /\ origin = <<>>
    /\ responses = <<>>
    /\ last = NoLast
    /\ row = [Label |-> MissingCell, Type |-> MissingCell,
              Required |-> MissingCell, Option |-> MissingCell]
    /\ out = [ok |-> FALSE, field |-> <<>>, ran |-> FALSE]

NextUsers ==
    \/ \E w \in Workers, c \in ClerkIds, e \in Emails : RegisterQuery(w, c, e)
    \/ \E w \in Workers : RegisterCommit(w)

SpecUsers == InitStore /\ [][NextUsers]_vars

---------------------------------------------------------------------------
(* upload_file *)

\* generate(size=10) draws from 64^10 tokens; two stand for them, so that
\* equal draws happen
NanoIds == {"nano_1", "nano_2"}
NoUser == 0
\* user_id: nothing, or the id the client got from register_user
UserIdArgs == {NoUser} \cup {users[i].id : i \in 1..Len(users)}

\* A value of the parsed JSON body as data.get(key) returns it: None when
\* the key is missing, else the value under the key.
JNone == [t |-> "none", v |-> <<>>]
JVal(v) == [t |-> "val", v |-> v]

\* Python truth of what data.get returned: None, "" and [] are false
Truthy(x) == x.t = "val" /\ x.v # <<>>

\* JsonRejected testing form_name alone
JsonRejectedNameOnly(form_name, fields) == ~Truthy(form_name)

\* if not form_name or not fields: raise HTTPException(400)
JsonRejected(form_name, fields) == ~Truthy(form_name) \/ ~Truthy(fields)

\* The loop over df.iterrows(): fields grows row by row until a row raises.
RECURSIVE RowsToFields(_, _)
RowsToFields(rows, fields) ==
    IF rows = <<>> THEN [ok |-> TRUE, fields |-> fields]
    ELSE LET field_json == FieldJson(Head(rows))
         IN  IF field_json.ok
             THEN RowsToFields(Tail(rows), Append(fields, field_json.field))
             ELSE [ok |-> FALSE, fields |-> fields]

\* XlsxParse swallowing the exception and keeping the rows built so far
XlsxParseSkippingFailure(sheet) ==
    [ok |-> TRUE,
     fields |-> IF sheet.readable THEN RowsToFields(sheet.rows, <<>>).fields ELSE <<>>]

\* The try block of the .xlsx branch: pd.read_excel, then the loop; any
\* exception of either leaves the handler with a 400.
XlsxParse(sheet) ==
    IF ~sheet.readable
    THEN [ok |-> FALSE, fields |-> <<>>]
    ELSE RowsToFields(sheet.rows, <<>>)

\* SaveStatus answering 201 whatever the commit did
SaveStatusAlwaysCreated(exc) == 201

\* except SQLAlchemyError: db.rollback(), 500; else 201
SaveStatus(exc) == IF exc = "none" THEN 201 ELSE 500

\* Form(form_id=form_id, user_id=user_id, name=form_name, fields=fields)
NewForm(form_id, user_id, form_name, fields) ==
    [id |-> NextId(forms), form_id |-> form_id, user_id |-> user_id,
     name |-> form_name, fields |-> fields]

\* db.add(new_form); db.commit(): the store rejects a taken form_id, which
\* the handler rolls back; otherwise the row is stored.
SaveForm(branch, form_id, user_id, form_name, fields) ==
    IF FormIdTaken(forms, form_id)
    THEN /\ UNCHANGED <<forms, origin>>
         /\ last' = Outcome(branch, "db_error", SaveStatus("IntegrityError"), Len(fields))
    ELSE /\ forms' = Append(forms, NewForm(form_id, user_id, form_name, fields))
         /\ origin' = Append(origin, branch)
         /\ last' = Outcome(branch, "created", SaveStatus("none"), Len(fields))

\* A file name that ends with neither .json nor .xlsx
UploadOther ==
    /\ last' = Outcome("upload_other", "file_type", 400, 0)
    /\ UNCHANGED <<users, workers, forms, origin, responses, row, out>>

\* A .json upload.  json.loads raises on a body that is no JSON, which no
\* handler catches (a 500); a body without a true formName and fields is
\* refused before the session is opened.
UploadJson(body, user_id, form_id) ==
    /\ IF ~body.parses
       THEN /\ last' = Outcome("upload_json", "json_error", 500, 0)
            /\ UNCHANGED <<forms, origin>>
       ELSE IF JsonRejected(body.formName, body.fields)
       THEN /\ last' = Outcome("upload_json", "rejected", 400, Len(body.fields.v))
            /\ UNCHANGED <<forms, origin>>
       ELSE SaveForm("upload_json", form_id, user_id, body.formName.v, body.fields.v)
    /\ UNCHANGED <<users, workers, responses, row, out>>

\* An .xlsx upload.  form_name keeps its initial "".
UploadXlsx(sheet, user_id, form_id) ==
    /\ LET parsed == XlsxParse(sheet)
       IN  IF ~parsed.ok
           THEN /\ last' = Outcome("upload_xlsx", "parse_error", 400, Len(parsed.fields))
                /\ UNCHANGED <<forms, origin>>
           ELSE SaveForm("upload_xlsx", form_id, user_id, <<>>, parsed.fields)
    /\ UNCHANGED <<users, workers, responses, row, out>>

---------------------------------------------------------------------------
(* submit_form_response *)

Datas == {"answers"}

\* FindForm without its filter: the first row of the table
FindFormUnfiltered(formId) == IF Len(forms) > 0 THEN 1 ELSE 0

\* db.query(Form).filter(Form.form_id == formId).first(): the index of the
\* row, 0 for None
FindForm(formId) ==
    IF FormIdTaken(forms, formId)
    THEN CHOOSE i \in 1..Len(forms) : forms[i].form_id = formId
    ELSE 0

\* Response(form_id=form.id, data=response_data.data)
NewResponse(form, data) ==
    [id |-> NextId(responses), form_id |-> form.id, data |-> data]

SubmitFormResponse(formId, data) ==
    /\ LET i == FindForm(formId)
       IN  IF i = 0
           THEN /\ last' = Outcome("submit", "not_found", 404, 0)
                /\ UNCHANGED responses
           ELSE /\ Len(responses) < MaxResponses
                /\ responses' = Append(responses, NewResponse(forms[i], data))
                /\ last' = Outcome("submit", "created", 200, 0)
    /\ UNCHANGED <<users, workers, forms, origin, row, out>>

---------------------------------------------------------------------------
(* The uploads the model draws from *)

Str_A == <<"A">>
Str_B == <<"B">>
Str_Survey == <<"S">>
Str_Color == <<"C", "o", "l">>

TextFieldWithOptions == [label |-> Str_A, type |-> Text, options |-> <<Str_A>>]
DropdownFieldNoOptions == [label |-> Str_B, type |-> Dropdown]

JsonNames == {JNone, JVal(<<>>), JVal(Str_Survey)}
JsonFieldLists ==
    {JNone, JVal(<<>>), JVal(<<DropdownFieldNoOptions, TextFieldWithOptions>>)}

JsonBodies ==
    {[parses |-> FALSE, formName |-> JNone, fields |-> JNone]}
    \cup [parses : {TRUE}, formName : JsonNames, fields : JsonFieldLists]

MkRow(label, type, required, option) ==
    [Label |-> label, Type |-> type, Required |-> required, Option |-> option]

DropdownRow ==
    MkRow(StrCell(Str_Color), StrCell(Dropdown), StrCell(Yes),
          StrCell(<<"A", ",", " ", "B">>))
TextRow ==
    MkRow(StrCell(Str_A), StrCell(Text), StrCell(<<"N", "o">>), StrCell(Str_B))
ChoiceRow ==
    MkRow(StrCell(Str_B), StrCell(MultipleChoice), StrCell(<<"Y", "E", "S">>),
          StrCell(<<" ">>))
BlankRequiredRow ==
    MkRow(StrCell(Str_B), StrCell(Text), NaNCell, StrCell(Str_A))

Sheets ==
    {[readable |-> FALSE, rows |-> <<>>],
     [readable |-> TRUE, rows |-> <<>>],
     [readable |-> TRUE, rows |-> <<DropdownRow>>],
     [readable |-> TRUE, rows |-> <<TextRow, ChoiceRow>>],
     [readable |-> TRUE, rows |-> <<DropdownRow, BlankRequiredRow>>]}

NextForms ==
    \/ UploadOther
    \/ \E b \in JsonBodies, u \in UserIdArgs, n \in NanoIds : UploadJson(b, u, n)
    \/ \E s \in Sheets, u \in UserIdArgs, n \in NanoIds : UploadXlsx(s, u, n)
    \/ \E n \in NanoIds, d \in Datas : SubmitFormResponse(n, d)

SpecForms == InitStore /\ [][NextForms]_vars

---------------------------------------------------------------------------
(* The row translation on its own: one row of cells, translated once *)

SeqsUpTo(S, n) == UNION {[1..m -> S] : m \in 0..n}

ReqAlphabet == {"y", "Y", "e", "s", " "}
ReqSamples == {<<"Y", "E", "S">>, <<" ", "y", "e", "s", " ">>, <<"n", "o">>}
ReqCells ==
    {MissingCell, NaNCell, NumCell}
    \cup {StrCell(s) : s \in SeqsUpTo(ReqAlphabet, MaxReqLen) \cup ReqSamples}

OptAlphabet == {"A", ",", " "}
OptSamples == {<<"A", ",", " ", "B", " ", ",", ",", "C">>}
OptCells ==
    {MissingCell, NaNCell}
    \cup {StrCell(s) : s \in SeqsUpTo(OptAlphabet, MaxOptLen) \cup OptSamples}

LabelCells == {NaNCell, StrCell(<<" ", "A">>)}

TypeCells ==
    {MissingCell, NaNCell}
    \cup {StrCell(s) : s \in {Text, Checkbox, Dropdown, MultipleChoice,
                              <<" ">> \o Dropdown \o <<" ">>,
                              <<" ">> \o Text,
                              Lower(Dropdown)}}

Rows == [Label : LabelCells, Type : TypeCells, Required : ReqCells, Option : OptCells]

InitNorm ==
    /\ users = <<>>
    /\ workers = [w \in Workers |-> Idle]
    /\ forms = <<>>
    /\ origin = <<>>
    /\ responses = <<>>
    /\ last = NoLast
    /\ row \in Rows
    /\ out = [ok |-> FALSE, field |-> <<>>, ran |-> FALSE]

\* One pass of the loop body over row
TransformRow ==
    /\ ~out.ran
    /\ out' = [ok |-> FieldJson(row).ok, field |-> FieldJson(row).field, ran |-> TRUE]
    /\ UNCHANGED <<users, workers, forms, origin, responses, last, row>>

NextNorm == TransformRow

SpecNorm == InitNorm /\ [][NextNorm]_vars

---------------------------------------------------------------------------
(* Properties *)

\* the text of a cell; a cell that is no str has none
CellText(cell) == IF cell.k = "str" THEN cell.s ELSE <<>>
IsTextOrMissing(cell) == cell.k \in {"str", "missing"}

UniqueClerkIds(table) ==
    \A i, j \in 1..Len(table) :
        table[i].clerk_user_id = table[j].clerk_user_id => i = j

UniqueFormIds(table) ==
    \A i, j \in 1..Len(table) : table[i].form_id = table[j].form_id => i = j

OptionsIffChoiceType(f) == ("options" \in DOMAIN f) <=> (f.type \in ChoiceTypes)

\* C1: a register_user call for an auth-provider id that is already stored
\* is answered with status 400 and leaves the users table as it was.
C1_DuplicateRegistrationRejected400 ==
    [][\A w \in Workers, c \in ClerkIds, e \in Emails :
          (RegisterQuery(w, c, e) /\ (\E i \in 1..Len(users) : users[i].clerk_user_id = c))
              => (last'.status = 400 /\ users' = users)]_vars

\* C2: every stored Form has a non-empty name and a non-empty sequence of
\* fields, whichever upload branch created it.
C2_FormsHaveNameAndFields ==
    \A i \in 1..Len(forms) : forms[i].name # <<>> /\ forms[i].fields # <<>>

\* C3 (as claimed): every descriptor of every stored Form, of either upload
\* branch, has an options key exactly when its type is Dropdown or
\* Multiple Choice.
C3_OptionsIffChoiceTypeEveryForm ==
    \A i \in 1..Len(forms) :
        \A k \in 1..Len(forms[i].fields) : OptionsIffChoiceType(forms[i].fields[k])

\* C3 (amended): every descriptor of every stored Form that an .xlsx upload
\* created has an options key exactly when its type is Dropdown or
\* Multiple Choice.
C3_OptionsIffChoiceTypeTabular ==
    \A i \in 1..Len(forms) :
        origin[i] = "upload_xlsx"
            => \A k \in 1..Len(forms[i].fields) : OptionsIffChoiceType(forms[i].fields[k])

\* C3 witness: a Form of an .xlsx upload with a Text descriptor and a
\* Multiple Choice descriptor is stored.
C3_Witness ==
    \E i \in 1..Len(forms) :
        /\ origin[i] = "upload_xlsx"
        /\ \E k \in 1..Len(forms[i].fields) : forms[i].fields[k].type = Text
        /\ \E k \in 1..Len(forms[i].fields) : forms[i].fields[k].type = MultipleChoice

\* C4: a submit_form_response whose form identifier matches no stored Form
\* is answered 404 and adds no Response; and after every step each stored
\* Response carries the internal id of a stored Form.
C4_SubmitNeedsExistingForm ==
    [][/\ \A n \in NanoIds, d \in Datas :
              (/\ ~(\E i \in 1..Len(forms) : forms[i].form_id = n)
               /\ last'.op = "submit"
               /\ SubmitFormResponse(n, d))
                  => (responses' = responses /\ last'.status = 404)
       /\ \A k \in 1..Len(responses') :
              \E i \in 1..Len(forms') : forms'[i].id = responses'[k].form_id]_vars

\* C4 witness: forms and responses are stored and the last submit named a
\* form identifier that no stored Form has.
C4_Witness ==
    /\ last.op = "submit" /\ last.path = "not_found"
    /\ Len(forms) >= 1 /\ Len(responses) >= 1

\* C5: no two stored Users share an auth-provider id; a register_user
\* commit whose id was taken since its own query stores nothing and is
\* answered 400, and any other commit adds exactly one User and is
\* answered 200.
C5_UniqueClerkIdUnderInterleaving ==
    [][/\ \A w \in Workers :
              RegisterCommit(w)
                  => IF \E i \in 1..Len(users) :
                            users[i].clerk_user_id = workers[w].clerk_user_id
                     THEN users' = users /\ last'.status = 400
                     ELSE Len(users') = Len(users) + 1 /\ last'.status = 200
       /\ UniqueClerkIds(users')]_vars

\* C5 witness: a request that had passed its existence query lost the
\* commit to another request for the same id, which is stored once.
C5_Witness ==
    /\ last.op = "register" /\ last.path = "integrity"
    /\ Len(users) >= 1
    /\ \A w \in Workers : workers[w].pc = "idle"

\* C6: no two stored Forms share an external identifier; an upload that
\* reaches the commit with an identifier a stored Form already has is
\* answered 500 and leaves the forms table as it was.
C6_UniqueFormIdOnCollision ==
    [][/\ \A b \in JsonBodies, u \in UserIdArgs, n \in NanoIds :
              (/\ last'.op = "upload_json"
               /\ b.parses /\ Truthy(b.formName) /\ Truthy(b.fields)
               /\ \E i \in 1..Len(forms) : forms[i].form_id = n
               /\ UploadJson(b, u, n))
                  => (forms' = forms /\ last'.status = 500)
       /\ \A s \in Sheets, u \in UserIdArgs, n \in NanoIds :
              (/\ last'.op = "upload_xlsx"
               /\ \E i \in 1..Len(forms) : forms[i].form_id = n
               /\ XlsxParse(s).ok
               /\ UploadXlsx(s, u, n))
                  => (forms' = forms /\ last'.status = 500)
       /\ UniqueFormIds(forms')]_vars

\* C6 witness: an upload lost a collision on the identifier of a stored Form.
C6_Witness ==
    /\ last.op \in {"upload_json", "upload_xlsx"} /\ last.path = "db_error"
    /\ Len(forms) >= 1

\* C7: an .xlsx upload whose spreadsheet cannot be read, or one of whose
\* rows raises, is answered 400 and leaves the forms table as it was.
C7_FailedSheetStoresNothing ==
    [][\A s \in Sheets, u \in UserIdArgs, n \in NanoIds :
          (/\ last'.op = "upload_xlsx"
           /\ \/ ~s.readable
              \/ \E k \in 1..Len(s.rows) : ~FieldJson(s.rows[k]).ok
           /\ UploadXlsx(s, u, n))
              => (forms' = forms /\ origin' = origin /\ last'.status = 400)]_vars

\* C7 witness: an .xlsx upload failed on a row after it had built the
\* descriptor of an earlier row.
C7_Witness ==
    last.op = "upload_xlsx" /\ last.path = "parse_error" /\ last.n >= 1

\* C8: every row whose other cells are text yields a descriptor, whose
\* validation.required is true exactly when the trimmed, lower-cased text
\* of the Required cell is "yes" (a Required cell without text gives false).
C8_RequiredIffYes ==
    (/\ out.ran
     /\ IsTextOrMissing(row.Label) /\ IsTextOrMissing(row.Type)
     /\ IsTextOrMissing(row.Option))
        => /\ out.ok
           /\ out.field.validation.required
                  = (Lower(Strip(CellText(row.Required))) = Yes)

\* C9: every row whose Label, Type and Required cells are text yields a
\* descriptor; for a Dropdown or Multiple Choice type its options are the
\* trimmed non-empty pieces of the Option cell between commas, in order
\* (the empty sequence for a cell without text; A, B, C for "A, B ,,C"), and
\* for a Text or Checkbox type it has no options key.
C9_OptionsFromTypeAndOption ==
    (/\ out.ran
     /\ IsTextOrMissing(row.Label) /\ IsTextOrMissing(row.Type)
     /\ IsTextOrMissing(row.Required))
        => LET type == Strip(CellText(row.Type))
           IN  /\ type \in ChoiceTypes
                      => /\ out.ok
                         /\ "options" \in DOMAIN out.field
                         /\ out.field.options = OptionList(CellText(row.Option))
                         /\ row.Option = StrCell(<<"A", ",", " ", "B", " ", ",", ",", "C">>)
                                => out.field.options = <<<<"A">>, <<"B">>, <<"C">>>>
               /\ type \in PlainTypes
                      => out.ok /\ "options" \notin DOMAIN out.field

=============================================================================
